---- MODULE Spec2Model ----
(***************************************************************************)
(* Model of custom_components/flo/sensor.py: the platform set-up function  *)
(* and the four Flo sensor entities (rate, temperature, pressure,          *)
(* monitoring mode).                                                       *)
(*                                                                         *)
(* Numbers.  A Python float that was read from a decimal literal with at   *)
(* most two decimals is represented by the record [dec, err]: dec is the   *)
(* literal in hundredths, err the sign of (binary double - literal), which *)
(* is what decides how round(x, 1) breaks a decimal tie.                   *)
(***************************************************************************)
EXTENDS Integers, Sequences, FiniteSets, TLC

\* ---------------------------------------------------------------- bounds
\* largest number of devices under one location
MaxDevices == 2
\* number of calls the host makes on registered sensors in SpecHost
MaxPolls == 2
\* largest reading, in hundredths, of the wide measurement set of SpecRound
MaxReading == 60

\* ------------------------------------------------------------ Python float
RECURSIVE Pow2Mod(_)
\* 2^s modulo 100
Pow2Mod(s) == IF s = 0 THEN 1 ELSE (2 * Pow2Mod(s - 1)) % 100

RECURSIVE ExpUp(_, _)
\* largest e >= 0 with 100 * 2^e <= h, for h >= 100 (p = 100 * 2^e so far)
ExpUp(h, p) == IF 2 * p > h THEN 0 ELSE 1 + ExpUp(h, 2 * p)

RECURSIVE ExpDown(_)
\* smallest k >= 1 with h * 2^k >= 100, for 0 < h < 100
ExpDown(h) == IF 2 * h >= 100 THEN 1 ELSE 1 + ExpDown(2 * h)

\* binary exponent of h/100: the e with 2^e <= h/100 < 2^(e+1)
Exponent(h) == IF h >= 100 THEN ExpUp(h, 100) ELSE 0 - ExpDown(h)

\* 2^s modulo 100 for the shifts a double's 53-bit significand can need
Pow2Table == [s \in 0..64 |-> Pow2Mod(s)]

\* sign of (nearest IEEE-754 double to h/100) - h/100.  The double is
\* round(h * 2^s / 100) / 2^s with s = 52 - Exponent(h); the remainder of
\* h * 2^s modulo 100 tells on which side of the quotient it lies.
BinErr(h) ==
    IF h = 0 THEN 0
    ELSE LET r == ((h % 100) * Pow2Table[52 - Exponent(h)]) % 100
         IN  IF r = 0 THEN 0 ELSE IF r < 50 THEN 0 - 1 ELSE 1

\* float(x) for the decimal literal x = h/100
float(h) == [dec |-> h, err |-> BinErr(h)]

\* round(x, 1) with round-half-up on the decimal literal (not what Python does)
round1HalfUp(x) == float(((x.dec + 5) \div 10) * 10)

\* round(x, 1): the tenth nearest to the binary value of x, an exact tie
\* going to the even tenth
round1(x) ==
    LET lo == (x.dec \div 10) * 10
        d  == x.dec % 10
        up == IF d # 5 THEN d > 5
              ELSE IF x.err # 0 THEN x.err > 0
              ELSE (lo \div 10) % 2 = 1
    IN  float(IF up THEN lo + 10 ELSE lo)

\* ------------------------------------------------------------- constants
ATTR_TIME == "time"
ATTR_TOTAL_FLOW == "total_flow"

FLO_HOME == "home"
FLO_AWAY == "away"
FLO_SLEEP == "sleep"
FLO_MODES == {FLO_HOME, FLO_AWAY, FLO_SLEEP}

\* Python's None
None == "None"

\* ---------------------------------------------------------- vendor service
\* a dict without some of its keys
Without(r, keys) == [k \in (DOMAIN r) \ keys |-> r[k]]

\* the response of the specification's example
M0 == [average_flowrate |-> 325, total_flow |-> 1234,
       average_temperature |-> 6860, average_pressure |-> 5505, time |-> "T0"]
\* a second complete response (exact binary ties 0.25, 0.75, 72.25)
M1 == [average_flowrate |-> 25, total_flow |-> 75,
       average_temperature |-> 7225, average_pressure |-> 6015, time |-> "T1"]

\* what get_waterflow_measurement may return: complete and incomplete dicts
Measurements ==
    {M0, M1, Without(M0, {"total_flow"}), Without(M0, {"time"}),
     Without(M1, {"average_flowrate", "average_temperature", "average_pressure"})}

\* a complete response all of whose readings are h
Reading(h) == [average_flowrate |-> h, total_flow |-> h,
               average_temperature |-> h, average_pressure |-> h, time |-> "T0"]

\* complete responses over a range of readings
WideMeasurements == {M0, M1} \cup {Reading(h) : h \in 0..MaxReading}

\* what get_request may return: a string, or a decoded JSON document
AlarmResponses == {[type |-> "str", body |-> "rules"], [type |-> "dict", body |-> "rules"]}

\* the locations the service knows: location n has n devices
Locations == [n \in 0..MaxDevices |-> [devices |-> [k \in 1..n |-> [id |-> 10 * n + k]]]]

\* location identifiers a configuration may carry; the last one is unknown
LocationIds == 0..(MaxDevices + 1)

\* service handles hass[FLO_SERVICE] may hold
Handles == {"absent", "disconnected", "connected"}

\* ---------------------------------------------------------------- sensors
\* FloEntity.__init__: the attribute mapping every entity starts with
FloEntity_init == [k \in {} |-> None]

\* FloRateSensor(hass, device_id)
FloRateSensor(device_id) ==
    [kind |-> "rate", device_id |-> device_id, name |-> "Flo Water Flow Rate",
     state |-> float(0), attrs |-> FloEntity_init]

\* FloTempSensor(hass, device_id)
FloTempSensor(device_id) ==
    [kind |-> "temperature", device_id |-> device_id, name |-> "Flo Water Temperature",
     state |-> float(0), attrs |-> FloEntity_init]

\* FloPressureSensor(hass, device_id)
FloPressureSensor(device_id) ==
    [kind |-> "pressure", device_id |-> device_id, name |-> "Flo Water Pressure",
     state |-> float(0), attrs |-> FloEntity_init]

\* FloMonitoringMode(hass, device_id)
FloMonitoringMode(device_id) ==
    [kind |-> "mode", device_id |-> device_id, name |-> "Flo Monitoring Mode",
     mode |-> None, attrs |-> FloEntity_init]

\* the state property of a sensor
state(s) == IF s.kind = "mode" THEN s.mode ELSE s.state

\* the unit_of_measurement property of a sensor
unit_of_measurement(s) ==
    CASE s.kind = "rate" -> "gpm"
      [] s.kind = "temperature" -> "TEMP_FAHRENHEIT"
      [] s.kind = "pressure" -> "psi"
      [] OTHER -> "mode"

\* dict.update: the keys of new are written, the others kept
DictUpdate(attrs, new) ==
    [k \in (DOMAIN attrs) \cup (DOMAIN new) |-> IF k \in DOMAIN new THEN new[k] ELSE attrs[k]]

\* the outcome of a method call: the object afterwards, the exception that
\* left it (or None), and the vendor calls it made
Outcome(s, raised, calls) == [sensor |-> s, raised |-> raised, calls |-> calls]

\* FloRateSensor.update written with the attributes computed first
FloRateSensor_update_atomic(s, r) ==
    LET calls == <<"get_waterflow_measurement">>
    IN  IF {"average_flowrate", "total_flow", "time"} \subseteq DOMAIN r
        THEN Outcome([s EXCEPT !.state = float(r.average_flowrate),
                               !.attrs = DictUpdate(s.attrs,
                                   (ATTR_TOTAL_FLOW :> round1(float(r.total_flow)))
                                   @@ (ATTR_TIME :> r.time))], None, calls)
        ELSE Outcome(s, "KeyError", calls)

\* FloRateSensor.update
FloRateSensor_update(s, r) ==
    LET calls == <<"get_waterflow_measurement">>
    IN  IF "average_flowrate" \notin DOMAIN r THEN Outcome(s, "KeyError", calls)
        ELSE LET s1 == [s EXCEPT !.state = float(r.average_flowrate)]
             IN  IF "total_flow" \notin DOMAIN r \/ "time" \notin DOMAIN r
                 THEN Outcome(s1, "KeyError", calls)
                 ELSE Outcome([s1 EXCEPT !.attrs = DictUpdate(s.attrs,
                                   (ATTR_TOTAL_FLOW :> round1(float(r.total_flow)))
                                   @@ (ATTR_TIME :> r.time))], None, calls)

\* FloTempSensor.update
FloTempSensor_update(s, r) ==
    LET calls == <<"get_waterflow_measurement">>
    IN  IF "average_temperature" \notin DOMAIN r THEN Outcome(s, "KeyError", calls)
        ELSE LET s1 == [s EXCEPT !.state = round1(float(r.average_temperature))]
             IN  IF "time" \notin DOMAIN r
                 THEN Outcome(s1, "KeyError", calls)
                 ELSE Outcome([s1 EXCEPT !.attrs = DictUpdate(s.attrs, ATTR_TIME :> r.time)],
                              None, calls)

\* FloPressureSensor.update rounding the decimal reading half up
FloPressureSensor_update_halfup(s, r) ==
    LET calls == <<"get_waterflow_measurement">>
    IN  IF "average_pressure" \notin DOMAIN r THEN Outcome(s, "KeyError", calls)
        ELSE LET s1 == [s EXCEPT !.state = round1HalfUp(float(r.average_pressure))]
             IN  IF "time" \notin DOMAIN r
                 THEN Outcome(s1, "KeyError", calls)
                 ELSE Outcome([s1 EXCEPT !.attrs = DictUpdate(s.attrs, ATTR_TIME :> r.time)],
                              None, calls)

\* FloPressureSensor.update
FloPressureSensor_update(s, r) ==
    LET calls == <<"get_waterflow_measurement">>
    IN  IF "average_pressure" \notin DOMAIN r THEN Outcome(s, "KeyError", calls)
        ELSE LET s1 == [s EXCEPT !.state = round1(float(r.average_pressure))]
             IN  IF "time" \notin DOMAIN r
                 THEN Outcome(s1, "KeyError", calls)
                 ELSE Outcome([s1 EXCEPT !.attrs = DictUpdate(s.attrs, ATTR_TIME :> r.time)],
                              None, calls)

\* FloMonitoringMode.update that takes the mode from the response
FloMonitoringMode_update_assigning(s, r) ==
    IF r.type = "str" THEN Outcome([s EXCEPT !.mode = FLO_HOME], None, <<"get_request">>)
    ELSE Outcome(s, "TypeError", <<"get_request">>)

\* FloMonitoringMode.update: the response is only logged; the string
\* concatenation of the log line raises on a response that is no string
FloMonitoringMode_update(s, r) ==
    IF r.type = "str" THEN Outcome(s, None, <<"get_request">>)
    ELSE Outcome(s, "TypeError", <<"get_request">>)

\* FloMonitoringMode.set_preset_mode that also notes the mode among the attributes
set_preset_mode_touching(s, mode) ==
    IF mode \notin FLO_MODES THEN Outcome(s, None, <<>>)
    ELSE Outcome([s EXCEPT !.mode = mode,
                           !.attrs = DictUpdate(s.attrs, "preset_mode" :> mode)], None, <<>>)

\* FloMonitoringMode.set_preset_mode without the validation
set_preset_mode_unchecked(s, mode) == Outcome([s EXCEPT !.mode = mode], None, <<>>)

\* FloMonitoringMode.set_preset_mode
set_preset_mode(s, mode) ==
    IF mode \notin FLO_MODES THEN Outcome(s, None, <<>>)
    ELSE Outcome([s EXCEPT !.mode = mode], None, <<>>)

\* sensor.update(), dispatched on the sensor's class
update(s, r) ==
    CASE s.kind = "rate" -> FloRateSensor_update(s, r)
      [] s.kind = "temperature" -> FloTempSensor_update(s, r)
      [] s.kind = "pressure" -> FloPressureSensor_update(s, r)
      [] OTHER -> FloMonitoringMode_update(s, r)

\* the responses the vendor client may give to the call update() makes
Responses(s) == IF s.kind = "mode" THEN AlarmResponses ELSE Measurements

\* the four sensors of one device with the temperature sensor appended first
DeviceSensorsSwapped(device_id) ==
    <<FloTempSensor(device_id), FloRateSensor(device_id),
      FloPressureSensor(device_id), FloMonitoringMode(device_id)>>

\* the four sensors setup_platform appends for one device, in its order
DeviceSensors(device_id) ==
    <<FloRateSensor(device_id), FloTempSensor(device_id),
      FloPressureSensor(device_id), FloMonitoringMode(device_id)>>

RECURSIVE Construct(_)
\* the sensors list after the loop over location['devices']
Construct(devices) ==
    IF Len(devices) = 0 THEN <<>>
    ELSE Construct(SubSeq(devices, 1, Len(devices) - 1))
         \o DeviceSensors(devices[Len(devices)].id)

\* ------------------------------------------------------------------ state
VARIABLES
    sensors,   \* the sensor objects: setup_platform's list / the host's entities
    pc,        \* where setup_platform stands: idle, updating, returned, raised
    idx,       \* index of the next sensor the initial-update loop refreshes
    ret,       \* what setup_platform returned ("pending" until it has)
    trace,     \* the calls setup_platform made on its collaborators, in order
    added,     \* the arguments add_sensors_callback was called with, in order
    args,      \* the service handle and location id setup_platform was called with
    polls,     \* number of calls the host made on the sensors
    presets,   \* number of set_preset_mode calls the host made
    last       \* the last method call on a sensor, with the sensors before it

vars == <<sensors, pc, idx, ret, trace, added, args, polls, presets, last>>

\* one entry of trace: the call, its argument (the index of the sensor for
\* update), and the exception it raised
Call(name, arg) == [call |-> name, arg |-> arg, raised |-> None]

NoArgs == [flo |-> None, location_id |-> 0 - 1]

NoCall == [op |-> "none", i |-> 0, arg |-> None, raised |-> None,
           calls |-> <<>>, before |-> <<>>]

\* flo.location(location_id) of the vendor client
location(location_id) ==
    IF location_id \in DOMAIN Locations
    THEN [found |-> TRUE, value |-> Locations[location_id]]
    ELSE [found |-> FALSE]

\* what setup_platform returns after add_sensors_callback: it ends without a
\* return statement
SetupReturn == None

\* the end of setup_platform, once every sensor is refreshed: the callback
\* is called with the list, and the function returns
Register(list, tr) ==
    /\ added' = Append(added, list)
    /\ trace' = Append(tr, Call("add_sensors_callback", Len(list)))
    /\ ret' = SetupReturn
    /\ pc' = "returned"

\* setup_platform fails one of its two checks
Refuse(tr) ==
    /\ trace' = tr
    /\ ret' = "False"
    /\ pc' = "returned"
    /\ UNCHANGED <<sensors, idx, added>>

\* setup_platform with both checks only logging: a missing location counts
\* as one without devices
SetupBeginUnchecked(flo, location_id) ==
    LET found == location(location_id)
        tr == <<Call("is_connected", 0), Call("location", location_id)>>
    IN  /\ pc = "idle"
        /\ args' = [flo |-> flo, location_id |-> location_id]
        /\ UNCHANGED <<polls, presets, last>>
        /\ sensors' = IF found.found THEN Construct(found.value.devices) ELSE <<>>
        /\ idx' = 1
        /\ IF Len(sensors') = 0
           THEN Register(sensors', tr)
           ELSE /\ trace' = tr
                /\ pc' = "updating"
                /\ UNCHANGED <<ret, added>>

\* setup_platform up to the first initial update: the two checks and the
\* construction loop (with no device the function runs to its end)
SetupBegin(flo, location_id) ==
    /\ pc = "idle"
    /\ args' = [flo |-> flo, location_id |-> location_id]
    /\ UNCHANGED <<polls, presets, last>>
    /\ IF flo = "absent" THEN Refuse(<<>>)
       ELSE IF flo = "disconnected" THEN Refuse(<<Call("is_connected", 0)>>)
       ELSE LET found == location(location_id)
                tr == <<Call("is_connected", 0), Call("location", location_id)>>
            IN  IF ~found.found THEN Refuse(tr)
                ELSE /\ sensors' = Construct(found.value.devices)
                     /\ idx' = 1
                     /\ IF Len(sensors') = 0
                        THEN Register(sensors', tr)
                        ELSE /\ trace' = tr
                             /\ pc' = "updating"
                             /\ UNCHANGED <<ret, added>>

\* the record of a method call on sensor i
Done(op, i, arg, out) ==
    [op |-> op, i |-> i, arg |-> arg, raised |-> out.raised,
     calls |-> out.calls, before |-> sensors]

\* the trace entry of the initial update of sensor i
Updated(i, out) == [call |-> "update", arg |-> i, raised |-> out.raised]

\* the initial-update loop with each update() wrapped in a handler that
\* swallows the exception
SetupUpdateSwallow(r) ==
    /\ pc = "updating"
    /\ idx <= Len(sensors)
    /\ LET out == update(sensors[idx], r)
           tr == Append(trace, Updated(idx, out))
       IN  /\ sensors' = [sensors EXCEPT ![idx] = out.sensor]
           /\ last' = Done("update", idx, r, out)
           /\ idx' = idx + 1
           /\ IF idx = Len(sensors)
              THEN Register(sensors', tr)
              ELSE /\ trace' = tr
                   /\ UNCHANGED <<pc, ret, added>>
    /\ UNCHANGED <<args, polls, presets>>

\* one turn of "for sensor in sensors: sensor.update()" in setup_platform,
\* the vendor answering r; an exception leaves setup_platform, and after the
\* last sensor the function runs to its end
SetupUpdate(r) ==
    /\ pc = "updating"
    /\ idx <= Len(sensors)
    /\ LET out == update(sensors[idx], r)
           tr == Append(trace, Updated(idx, out))
       IN  /\ sensors' = [sensors EXCEPT ![idx] = out.sensor]
           /\ last' = Done("update", idx, r, out)
           /\ idx' = idx + 1
           /\ IF out.raised # None
              THEN /\ pc' = "raised"
                   /\ ret' = out.raised
                   /\ trace' = tr
                   /\ UNCHANGED added
              ELSE IF idx = Len(sensors)
              THEN Register(sensors', tr)
              ELSE /\ trace' = tr
                   /\ UNCHANGED <<pc, ret, added>>
    /\ UNCHANGED <<args, polls, presets>>

\* the host polls sensor i: sensor.update(), the vendor answering r
HostUpdate(i, r) ==
    LET out == update(sensors[i], r)
    IN  /\ sensors' = [sensors EXCEPT ![i] = out.sensor]
        /\ last' = Done("update", i, r, out)
        /\ UNCHANGED <<pc, idx, ret, trace, added, args>>

\* the host calls set_preset_mode(mode) on monitoring-mode sensor i
HostSetPresetMode(i, mode) ==
    LET out == set_preset_mode(sensors[i], mode)
    IN  /\ sensors[i].kind = "mode"
        /\ sensors' = [sensors EXCEPT ![i] = out.sensor]
        /\ last' = Done("set_preset_mode", i, mode, out)
        /\ UNCHANGED <<pc, idx, ret, trace, added, args>>

\* arguments the host may pass to set_preset_mode
ModeArguments == FLO_MODES \cup {"invalid", None}

\* ---------------------------------------------------------- specifications
\* before setup_platform is called
Init ==
    /\ sensors = <<>>
    /\ pc = "idle"
    /\ idx = 1
    /\ ret = "pending"
    /\ trace = <<>>
    /\ added = <<>>
    /\ args = NoArgs
    /\ polls = 0
    /\ presets = 0
    /\ last = NoCall

Setup == \E flo \in Handles, location_id \in LocationIds : SetupBegin(flo, location_id)

InitialUpdate ==
    /\ pc = "updating"
    /\ idx <= Len(sensors)
    /\ \E r \in Responses(sensors[idx]) : SetupUpdate(r)

Next == Setup \/ InitialUpdate

\* one call of setup_platform, for every handle, location and vendor answer
Spec == Init /\ [][Next]_vars

\* the sensors of one location, as constructed
InitHost ==
    /\ \E n \in DOMAIN Locations : sensors = Construct(Locations[n].devices)
    /\ pc = "idle"
    /\ idx = 1
    /\ ret = "pending"
    /\ trace = <<>>
    /\ added = <<>>
    /\ args = NoArgs
    /\ polls = 0
    /\ presets = 0
    /\ last = NoCall

Poll ==
    /\ polls < MaxPolls
    /\ polls' = polls + 1
    /\ UNCHANGED presets
    /\ \E i \in DOMAIN sensors : \E r \in Responses(sensors[i]) : HostUpdate(i, r)

SetMode ==
    /\ polls < MaxPolls
    /\ polls' = polls + 1
    /\ presets' = presets + 1
    /\ \E i \in DOMAIN sensors : \E mode \in ModeArguments : HostSetPresetMode(i, mode)

NextHost == Poll \/ SetMode

\* the host's calls on the sensors of one location, in any order
SpecHost == InitHost /\ [][NextHost]_vars

\* one measurement sensor, as constructed
InitRound ==
    /\ \E s \in {FloRateSensor(11), FloTempSensor(11), FloPressureSensor(11)} :
           sensors = <<s>>
    /\ pc = "idle"
    /\ idx = 1
    /\ ret = "pending"
    /\ trace = <<>>
    /\ added = <<>>
    /\ args = NoArgs
    /\ polls = 0
    /\ presets = 0
    /\ last = NoCall

NextRound == \E r \in WideMeasurements : HostUpdate(1, r) /\ UNCHANGED <<polls, presets>>

\* any number of refreshes of one measurement sensor, over a range of readings
SpecRound == InitRound /\ [][NextRound]_vars

\* ----------------------------------------------------------------- claims
\* the call of setup_platform has ended, by a return or by an exception
Ended == pc \in {"returned", "raised"}

\* the device list the configured location identifier resolves to
Resolved == args.flo = "connected" /\ args.location_id \in DOMAIN Locations
ResolvedDevices == Locations[args.location_id].devices

\* list holds, for the k-th device, a rate, a temperature, a pressure and a
\* monitoring-mode sensor of that device at positions 4k..4k+3 (from 0)
FourPerDevice(list, devices) ==
    /\ Len(list) = 4 * Len(devices)
    /\ \A k \in 0..(Len(devices) - 1) :
          /\ list[4 * k + 1].kind = "rate"
          /\ list[4 * k + 2].kind = "temperature"
          /\ list[4 * k + 3].kind = "pressure"
          /\ list[4 * k + 4].kind = "mode"
          /\ \A j \in 1..4 : list[4 * k + j].device_id = devices[k + 1].id

IsUpdate(c) == c.call = "update"
IsCallback(c) == c.call = "add_sensors_callback"
IsLookup(c) == c.call = "location"

\* the initial updates setup_platform made, in order
Updates == SelectSeq(trace, IsUpdate)

\* C1 as stated: whenever setup_platform is called with a connected handle
\* and a location of N >= 1 devices, the registration callback receives the
\* list of 4N sensors, four per device in the order rate, temperature,
\* pressure, mode.
C1_Stated ==
    (Ended /\ Resolved /\ Len(ResolvedDevices) >= 1)
        => /\ Len(added) = 1
           /\ FourPerDevice(added[1], ResolvedDevices)

\* C1 as amended: with a connected handle and a location of N >= 1 devices,
\* setup_platform constructs the 4N sensors, four per device in the order
\* rate, temperature, pressure, mode, and passes that list to the
\* registration callback when every initial update completes; when one
\* raises, the callback receives nothing.
C1_Registered ==
    (Resolved /\ Len(ResolvedDevices) >= 1 /\ pc # "idle")
        => /\ FourPerDevice(sensors, ResolvedDevices)
           /\ pc = "returned" => (Len(added) = 1 /\ FourPerDevice(added[1], ResolvedDevices))
           /\ pc # "returned" => added = <<>>

C1_Witness ==
    /\ pc = "returned"
    /\ Resolved
    /\ Len(ResolvedDevices) >= 2
    /\ Len(added) = 1
    /\ Len(added[1]) >= 8

\* C2: with a connected handle and a location identifier that does not
\* resolve, setup_platform returns False, never calls the registration
\* callback and constructs and refreshes no sensor.
C2_UnknownLocation ==
    (pc # "idle" /\ args.flo = "connected" /\ args.location_id \notin DOMAIN Locations)
        => /\ pc = "returned"
           /\ ret = "False"
           /\ added = <<>>
           /\ sensors = <<>>
           /\ Updates = <<>>
           /\ SelectSeq(trace, IsCallback) = <<>>

C2_Witness ==
    /\ pc = "returned"
    /\ args.flo = "connected"
    /\ args.location_id \notin DOMAIN Locations
    /\ SelectSeq(trace, IsLookup) # <<>>

\* C3: with the handle absent or not connected, setup_platform returns False
\* and makes no location lookup and no call of the registration callback.
C3_NoConnection ==
    (pc # "idle" /\ args.flo \in {"absent", "disconnected"})
        => /\ pc = "returned"
           /\ ret = "False"
           /\ SelectSeq(trace, IsLookup) = <<>>
           /\ SelectSeq(trace, IsCallback) = <<>>
           /\ added = <<>>

C3_Witness ==
    /\ pc = "returned"
    /\ args.flo = "disconnected"
    /\ args.location_id \in DOMAIN Locations
    /\ Len(Locations[args.location_id].devices) >= 1

\* C4: setup_platform returns a boolean: True once it has passed the sensor
\* list to the registration callback, False on a failed precondition.
C4_ReturnsBoolean ==
    pc = "returned"
        => /\ ret \in {"True", "False"}
           /\ (Len(added) = 1) => ret = "True"

\* C5: in one call of setup_platform the initial updates run in
\* construction order, sensor 1, 2, ... once each; the registration callback
\* is called at most once, as the last call and only after every sensor was
\* updated without an exception; an update that raises ends the call: no
\* later sensor is refreshed and the callback is never called.
C5_UpdateThenRegister ==
    /\ \A n \in 1..Len(Updates) : Updates[n].arg = n
    /\ Len(SelectSeq(trace, IsCallback)) <= 1
    /\ Len(added) = Len(SelectSeq(trace, IsCallback))
    /\ \A n \in 1..Len(trace) :
          IsCallback(trace[n])
              => /\ n = Len(trace)
                 /\ Len(Updates) = Len(sensors)
                 /\ \A m \in 1..Len(Updates) : Updates[m].raised = None
    /\ \A n \in 1..Len(trace) :
          (IsUpdate(trace[n]) /\ trace[n].raised # None)
              => /\ n = Len(trace)
                 /\ pc = "raised"
                 /\ added = <<>>
                 /\ \A i \in (trace[n].arg + 1)..Len(sensors) :
                        sensors[i] = Construct(ResolvedDevices)[i]

C5_Witness ==
    /\ pc = "returned"
    /\ Len(sensors) >= 8
    /\ Len(Updates) = Len(sensors)
    /\ IsCallback(trace[Len(trace)])

\* the sensor the last call was made on, before and after the call
Before == last.before[last.i]
After == sensors[last.i]

\* C6: set_preset_mode(m) sets the mode to m when m is home, away or sleep;
\* for any other m it leaves the mode as it was, raises nothing and makes no
\* vendor call.
C6_SetPresetMode ==
    last.op = "set_preset_mode"
        => IF last.arg \in {"home", "away", "sleep"}
           THEN After.mode = last.arg
           ELSE /\ After.mode = Before.mode
                /\ last.raised = None
                /\ last.calls = <<>>

C6_Witness ==
    /\ last.op = "set_preset_mode"
    /\ last.arg = "invalid"
    /\ Before.mode = "away"
    /\ After.mode = "away"

\* C7: update() of the monitoring-mode sensor never changes the mode,
\* whatever the endpoint answers and whether or not the call raises; while
\* set_preset_mode was never called, every mode stays unset.
C7_UpdateKeepsMode ==
    /\ (last.op = "update" /\ After.kind = "mode") => After.mode = Before.mode
    /\ presets = 0 => \A i \in DOMAIN sensors : sensors[i].kind = "mode" => sensors[i].mode = None

C7_Witness ==
    /\ last.op = "update"
    /\ After.kind = "mode"
    /\ last.raised = "TypeError"
    /\ Before.mode = "home"
    /\ After.mode = "home"

\* x is a float with one decimal that lies within 0.05 of the reading h
IsRounded1(x, h) == x.dec % 10 = 0 /\ x.dec - h \in (0 - 5)..5

\* the last call was an update() that completed
Refreshed == last.op = "update" /\ last.raised = None

\* what C8 says of every complete response R: the rate is R.average_flowrate
\* as read, total_flow, the temperature and the pressure are R's fields
\* rounded to one decimal, and time is R.time
C8_Fields ==
    Refreshed =>
        LET R == last.arg
        IN  /\ After.kind = "rate"
                => /\ After.state.dec = R.average_flowrate
                   /\ IsRounded1(After.attrs[ATTR_TOTAL_FLOW], R.total_flow)
            /\ After.kind = "temperature" => IsRounded1(After.state, R.average_temperature)
            /\ After.kind = "pressure" => IsRounded1(After.state, R.average_pressure)
            /\ After.attrs[ATTR_TIME] = R.time

\* the readings of C8's example other than the pressure
C8_Example ==
    (Refreshed /\ last.arg = M0) =>
        /\ After.kind = "rate"
            => After.state = float(325) /\ After.attrs[ATTR_TOTAL_FLOW] = float(1230)
        /\ After.kind = "temperature" => After.state = float(6860)
        /\ After.attrs[ATTR_TIME] = "T0"

\* C8 as stated: after a refresh that completes the sensors hold the
\* response's fields, rounded to one decimal where C8 says so, and the
\* example response gives 3.25, 12.3, 68.6, a pressure of 55.1, and T0.
C8_Stated ==
    /\ C8_Fields
    /\ C8_Example
    /\ (Refreshed /\ last.arg = M0 /\ After.kind = "pressure") => After.state = float(5510)

\* C8 as amended: the same, with the example's pressure 55.05 giving 55.0
\* (the float 55.05 lies below the decimal 55.05, and round() rounds the
\* float).
C8_Rounded ==
    /\ C8_Fields
    /\ C8_Example
    /\ (Refreshed /\ last.arg = M0 /\ After.kind = "pressure") => After.state = float(5500)

C8_Witness ==
    /\ Refreshed
    /\ last.arg = M0
    /\ After.kind = "pressure"
    /\ Before.state # float(0)

\* sensor i's scalar state differs from what it was before the last call
ScalarChanged(i) == state(sensors[i]) # state(last.before[i])
\* sensor i's attribute mapping differs from what it was before the last call
AttrsChanged(i) == sensors[i].attrs # last.before[i].attrs

C10_HalfUpdate ==
    (/\ last.op = "update"
     /\ After.kind = "rate"
     /\ "average_flowrate" \in DOMAIN last.arg
     /\ ("total_flow" \notin DOMAIN last.arg \/ "time" \notin DOMAIN last.arg))
        => /\ last.raised = "KeyError"
           /\ After.state = float(last.arg.average_flowrate)
           /\ After.attrs = Before.attrs

C10_Witness ==
    /\ last.op = "update"
    /\ After.kind = "rate"
    /\ last.raised = "KeyError"
    /\ After.state = float(325)
    /\ Before.state = float(25)
    /\ After.attrs[ATTR_TIME] = "T1"
    /\ After.attrs[ATTR_TOTAL_FLOW] = float(80)

====
